---------------------------- MODULE Spec2Model ----------------------------
(***************************************************************************)
(* A model of the mendel crate (src/bag.rs): the Bag population container, *)
(* its two constructors, set_max_sims, and the two Monte Carlo estimation  *)
(* loops `one` and `sample`.  Every random draw is a nondeterministic      *)
(* choice, so a property checked here holds for every sequence of draws.   *)
(*                                                                         *)
(* A call of `one` or `sample` is followed iteration by iteration: the     *)
(* call step runs the statements before the `for`, a trial step runs one   *)
(* iteration of the loop body, the return step computes the quotient.      *)
(* A quotient a / b of the code (an f64) is kept as the pair <<num, den>>  *)
(* and compared by cross-multiplication.                                   *)
(***************************************************************************)
EXTENDS Integers, Sequences, FiniteSets

(* ------------------------------ bounds -------------------------------- *)

\* Longest vector handed to from_vec, and largest endpoint of from_range.
MaxLen == 3

\* Largest argument of set_max_sims (it exceeds MAX_SIMS on purpose).
MaxSet == 4

(* --------------------------- program constants ------------------------ *)

\* const MAX_SIMS: u32 = 100_000, scaled down to 3 so that a simulation
\* loop of MAX_SIMS iterations can be enumerated.  Budgets below, equal to
\* and above MAX_SIMS all occur (0..MaxSet and the environment values).
MAX_SIMS == 3

(* ------------------------------ inputs -------------------------------- *)

\* Item values a caller puts in a vector (T = i32 here).
ItemValues == {1, 2}

RECURSIVE SeqsUpTo(_)
\* All sequences over ItemValues of length at most n.
SeqsUpTo(n) ==
  IF n = 0 THEN {<<>>}
  ELSE LET S == SeqsUpTo(n - 1)
       IN  S \cup {Append(s, x) : s \in {t \in S : Len(t) = n - 1}, x \in ItemValues}

\* Endpoints a caller passes to from_range.
RangeEnds == 0..MaxLen

\* The caller's closures.  For `one` the closure sees one item, for
\* `sample` the vector of drawn items.
Preds == {"always", "never", "has1"}

\* f(item) of `one`.
ApplyOne(f, item) ==
  CASE f = "always" -> TRUE
    [] f = "never"  -> FALSE
    [] f = "has1"   -> item = 1

\* f(sample) of `sample`.
ApplySample(f, v) ==
  CASE f = "always" -> TRUE
    [] f = "never"  -> FALSE
    [] f = "has1"   -> \E j \in 1..Len(v) : v[j] = 1

\* The state of the MENDEL_MAX_SIMS environment variable, a pair
\* <<kind, text>>: not set, set to bytes that are no valid Unicode, or set
\* to a text (a sequence of characters).
Unset      == << "unset", <<>> >>
NotUnicode == << "notunicode", <<>> >>
Text(s)    == << "text", s >>
EnvKind(e) == e[1]
EnvText(e) == e[2]

EnvValues ==
  { Unset, NotUnicode,
    Text(<<>>), Text(<<"x">>), Text(<<"-", "1">>), Text(<<"2", "x">>),
    Text(<<"0">>), Text(<<"+", "2">>), Text(<<"0", "4">>) }

(* ---------------------- get_default_max_sims -------------------------- *)

Digits == {"0", "1", "2", "3", "4", "5", "6", "7", "8", "9"}

\* char::to_digit(10)
DigitVal(c) ==
  CASE c = "0" -> 0 [] c = "1" -> 1 [] c = "2" -> 2 [] c = "3" -> 3
    [] c = "4" -> 4 [] c = "5" -> 5 [] c = "6" -> 6 [] c = "7" -> 7
    [] c = "8" -> 8 [] c = "9" -> 9

\* A Result, a pair <<ok, value>>: Ok(v), or Err (its value is not used).
Ok(v)    == << TRUE, v >>
Err      == << FALSE, 0 >>
IsOk(r)  == r[1]
Val(r)   == r[2]

RECURSIVE ParseDigits(_, _)
\* The digit loop of str::parse::<u32>: acc * 10 + digit, an error at the
\* first character that is no digit.  (The modelled texts are far too short
\* to overflow a u32, so the overflow error does not arise.)
ParseDigits(s, acc) ==
  IF s = <<>> THEN Ok(acc)
  ELSE IF Head(s) \notin Digits THEN Err
  ELSE ParseDigits(Tail(s), acc * 10 + DigitVal(Head(s)))

\* val.parse::<u32>(): the empty text is an error, one leading "+" is
\* skipped (a u32 takes no "-"), a lone sign is an error.
ParseU32(s) ==
  IF s = <<>> THEN Err
  ELSE LET d == IF Head(s) = "+" THEN Tail(s) ELSE s
       IN  IF d = <<>> THEN Err ELSE ParseDigits(d, 0)

\* A faulty get_default_max_sims: a text that does not parse falls back to
\* MAX_SIMS (unwrap_or) instead of panicking.
GetDefaultMaxSimsLenient(e) ==
  IF EnvKind(e) = "text" /\ IsOk(ParseU32(EnvText(e))) THEN ParseU32(EnvText(e))
  ELSE Ok(MAX_SIMS)

\* get_default_max_sims(): Ok(val) => val.parse::<u32>().unwrap(), which
\* panics on a parse error; Err(_) (not set, or not Unicode) => MAX_SIMS.
GetDefaultMaxSims(e) ==
  IF EnvKind(e) = "text" THEN ParseU32(EnvText(e)) ELSE Ok(MAX_SIMS)

(* ------------------------------ state --------------------------------- *)

VARIABLES
  env,            \* MENDEL_MAX_SIMS in the process environment
  status,         \* "none": no bag yet, "constructed", "failed": constructor panicked
  ctor,           \* history: the constructor call that was made
  items,          \* Bag.items
  max_sims,       \* Bag.max_sims
  lastSet,        \* history: argument of the latest set_max_sims, or NoSet
  pc,             \* "idle", "one", "sample" (inside the loop), "returned", "panicked"
  op,             \* the estimation call made last: "none", "one", "sample"
  f,              \* the closure of the call
  sample_size,    \* the sample_size argument of sample
  items_clone,    \* sample's local clone of items
  n,              \* the end of the loop's range 0..self.max_sims
  i,              \* iterations of the loop completed
  picks_in_favor, \* the call's counter
  drawn,          \* positions of items handed to the closure in the latest trial
  result          \* the value returned: <<num, den>>, or NoResult

vars == << env, status, ctor, items, max_sims, lastSet, pc, op, f,
           sample_size, items_clone, n, i, picks_in_favor, drawn, result >>

bagVars  == << status, ctor, items, max_sims, lastSet >>
callVars == << pc, op, f, sample_size, items_clone, n, i, picks_in_favor,
               drawn, result >>

NoSet    == 0 - 1
NoResult == << 0 - 1, 0 - 1 >>
Num(r)   == r[1]
Den(r)   == r[2]

\* The constructor call made, <<kind, v, min, max>>: "vec" with its vector,
\* "range" with its endpoints, or "none".
NoCtor      == << "none", <<>>, 0, 0 >>
CtorKind(c) == c[1]
CtorVec(c)  == c[2]
CtorMin(c)  == c[3]
CtorMax(c)  == c[4]

Init ==
  /\ env \in EnvValues
  /\ status = "none"
  /\ ctor = NoCtor
  /\ items = <<>>
  /\ max_sims = 0
  /\ lastSet = NoSet
  /\ pc = "idle"
  /\ op = "none"
  /\ f = "always"
  /\ sample_size = 0
  /\ items_clone = <<>>
  /\ n = 0
  /\ i = 0
  /\ picks_in_favor = 0
  /\ drawn = <<>>
  /\ result = NoResult

(* --------------------------- construction ----------------------------- *)

RECURSIVE Collect(_, _)
\* (min..max).collect(): the range yields min, min+1, ... while below max.
Collect(min, max) ==
  IF min >= max THEN <<>> ELSE <<min>> \o Collect(min + 1, max)

\* Bag { items, max_sims: get_default_max_sims() }, or the panic of the
\* unwrap inside get_default_max_sims, which leaves no bag.
NewBag(its, c) ==
  LET d == GetDefaultMaxSims(env)
  IN  /\ status = "none"
      /\ ctor' = c
      /\ IF IsOk(d)
         THEN /\ status' = "constructed"
              /\ items' = its
              /\ max_sims' = Val(d)
         ELSE /\ status' = "failed"
              /\ UNCHANGED << items, max_sims >>
      /\ UNCHANGED << env, lastSet, callVars >>

\* Bag::from_range(min, max)
FromRange(min, max) ==
  NewBag(Collect(min, max), << "range", <<>>, min, max >>)

\* Bag::from_vec(v): items = v.clone()
FromVec(v) ==
  NewBag(v, << "vec", v, 0, 0 >>)

(* --------------------------- set_max_sims ----------------------------- *)

\* Between calls: an estimation call borrows the bag until it returns.
Quiet == status = "constructed" /\ pc \in {"idle", "returned"}

\* A faulty set_max_sims: a zero argument is ignored.
SetMaxSimsIgnoringZero(m) ==
  /\ Quiet
  /\ max_sims' = IF m = 0 THEN max_sims ELSE m
  /\ lastSet' = m
  /\ UNCHANGED << env, status, ctor, items, callVars >>

\* bag.set_max_sims(m): self.max_sims = max_sims
SetMaxSims(m) ==
  /\ Quiet
  /\ max_sims' = m
  /\ lastSet' = m
  /\ UNCHANGED << env, status, ctor, items, callVars >>

(* ------------------------------- one ---------------------------------- *)

\* A faulty loop range: the constant in place of the bag's budget.
LoopEndConstant == MAX_SIMS

\* The end of the range `0..self.max_sims` both loops iterate over.
LoopEnd == max_sims

\* picks_in_favor as f64 / MAX_SIMS as f64
Quotient(picks) == << picks, MAX_SIMS >>

\* Rng::gen_range(low, high): asserts low < high, then a value of [low, high).
GenRange(low, high) == << low < high, low..(high - 1) >>

\* The call enters `one`: picks_in_favor = 0 and the range of the loop.
OneCall(g) ==
  /\ Quiet
  /\ pc' = "one"
  /\ op' = "one"
  /\ f' = g
  /\ sample_size' = 0
  /\ items_clone' = <<>>
  /\ n' = LoopEnd
  /\ i' = 0
  /\ picks_in_favor' = 0
  /\ drawn' = <<>>
  /\ result' = NoResult
  /\ UNCHANGED << env, bagVars >>

\* A faulty iteration of `one`: an empty bag counts as a miss, no panic.
OneTrialMissOnEmpty ==
  /\ pc = "one"
  /\ i < n
  /\ IF Len(items) > 0
     THEN \E idx \in 0..(Len(items) - 1) :
            /\ drawn' = << idx + 1 >>
            /\ picks_in_favor' =
                 IF ApplyOne(f, items[idx + 1]) THEN picks_in_favor + 1
                                                ELSE picks_in_favor
     ELSE UNCHANGED << drawn, picks_in_favor >>
  /\ i' = i + 1
  /\ UNCHANGED << env, bagVars, pc, op, f, sample_size, items_clone, n, result >>

\* One iteration of the loop of `one`: a random index, the item, f(item).
\* (Vec positions are 1-based here, so index idx is position idx + 1.)
OneTrial ==
  /\ pc = "one"
  /\ i < n
  /\ LET r == GenRange(0, Len(items))
     IN  IF IsOk(r)
         THEN \E idx \in Val(r) :
                /\ drawn' = << idx + 1 >>
                /\ picks_in_favor' =
                     IF ApplyOne(f, items[idx + 1]) THEN picks_in_favor + 1
                                                    ELSE picks_in_favor
                /\ i' = i + 1
                /\ pc' = pc
         ELSE /\ pc' = "panicked"
              /\ UNCHANGED << drawn, picks_in_favor, i >>
  /\ UNCHANGED << env, bagVars, op, f, sample_size, items_clone, n, result >>

\* The loop of `one` is over: the quotient is returned.
OneReturn ==
  /\ pc = "one"
  /\ i = n
  /\ pc' = "returned"
  /\ result' = Quotient(picks_in_favor)
  /\ UNCHANGED << env, bagVars, op, f, sample_size, items_clone, n, i,
                  picks_in_favor, drawn >>

(* ------------------------------ sample -------------------------------- *)

RECURSIVE Take(_, _)
\* reservoir.extend(iter.by_ref().take(amount)) of rand's seq::sample_iter:
\* the positions of the first `amount` of `len` items, or of all `len` if
\* there are fewer.
Take(len, amount) ==
  IF amount = 0 \/ len = 0 THEN <<>>
  ELSE IF amount > len THEN Take(len, len)
  ELSE Append(Take(len, amount - 1), amount)

RECURSIVE Reservoir(_, _, _, _)
\* The replacement loop of rand's seq::sample_iter over the elements that
\* follow the first `amount`: for element e (position e, the (e - amount)-th
\* of the rest) k = gen_range(0, e) and, if k is a slot of the reservoir,
\* that slot takes e.  The set of reservoirs the loop can end with.
Reservoir(res, e, len, amount) ==
  IF e > len THEN {res}
  ELSE UNION { Reservoir(IF k < amount THEN [res EXCEPT ![k + 1] = e] ELSE res,
                         e + 1, len, amount) : k \in Val(GenRange(0, e)) }

\* A faulty sampler: `amount` independent draws, with replacement.
SampleIterWithReplacement(len, amount) ==
  IF amount <= len
  THEN {<< TRUE, res >> : res \in [1..amount -> 1..len]}
  ELSE {<< FALSE, Take(len, amount) >>}

\* A faulty sampler: a short reservoir is handed out as Ok.
SampleIterTruncating(len, amount) ==
  LET first == Take(len, amount)
  IN  {<< TRUE, res >> : res \in Reservoir(first, Len(first) + 1, len, Len(first))}

\* seq::sample_iter(&mut rng, &items_clone, amount) in terms of positions of
\* a slice of `len` items: the reservoir starts as the first `amount` items;
\* Ok(reservoir) if there were that many, else Err(what there was).
SampleIter(len, amount) ==
  LET first == Take(len, amount)
  IN  IF Len(first) = amount
      THEN {<< TRUE, res >> : res \in Reservoir(first, amount + 1, len, amount)}
      ELSE {<< FALSE, first >>}

\* Sample sizes a caller passes.
SampleSizes == 0..(MaxLen + 1)

\* The call enters `sample`: the counter, the clone of items, the range.
SampleCall(k, g) ==
  /\ Quiet
  /\ pc' = "sample"
  /\ op' = "sample"
  /\ f' = g
  /\ sample_size' = k
  /\ items_clone' = items
  /\ n' = LoopEnd
  /\ i' = 0
  /\ picks_in_favor' = 0
  /\ drawn' = <<>>
  /\ result' = NoResult
  /\ UNCHANGED << env, bagVars >>

\* A faulty iteration of `sample`: the drawn items are taken out of the bag.
SampleTrialDraining ==
  /\ pc = "sample"
  /\ i < n
  /\ \E r \in SampleIter(Len(items_clone), sample_size) :
       IF IsOk(r)
       THEN /\ drawn' = Val(r)
            /\ picks_in_favor' =
                 IF ApplySample(f, [j \in 1..Len(Val(r)) |-> items_clone[Val(r)[j]]])
                 THEN picks_in_favor + 1 ELSE picks_in_favor
            /\ i' = i + 1
            /\ pc' = pc
            /\ items' = SelectSeq(items, LAMBDA x : \A j \in 1..Len(Val(r)) : items_clone[Val(r)[j]] # x)
       ELSE /\ pc' = "panicked"
            /\ UNCHANGED << drawn, picks_in_favor, i, items >>
  /\ UNCHANGED << env, status, ctor, max_sims, lastSet, op, f, sample_size,
                  items_clone, n, result >>

\* One iteration of the loop of `sample`: sample_iter(..).unwrap(), which
\* panics on Err, then f(sample).
SampleTrial ==
  /\ pc = "sample"
  /\ i < n
  /\ \E r \in SampleIter(Len(items_clone), sample_size) :
       IF IsOk(r)
       THEN /\ drawn' = Val(r)
            /\ picks_in_favor' =
                 IF ApplySample(f, [j \in 1..Len(Val(r)) |-> items_clone[Val(r)[j]]])
                 THEN picks_in_favor + 1 ELSE picks_in_favor
            /\ i' = i + 1
            /\ pc' = pc
       ELSE /\ pc' = "panicked"
            /\ UNCHANGED << drawn, picks_in_favor, i >>
  /\ UNCHANGED << env, bagVars, op, f, sample_size, items_clone, n, result >>

\* The loop of `sample` is over: the quotient is returned.
SampleReturn ==
  /\ pc = "sample"
  /\ i = n
  /\ pc' = "returned"
  /\ result' = Quotient(picks_in_favor)
  /\ UNCHANGED << env, bagVars, op, f, sample_size, items_clone, n, i,
                  picks_in_favor, drawn >>

(* --------------------------- specification ---------------------------- *)

Next ==
  \/ \E min \in RangeEnds, max \in RangeEnds : FromRange(min, max)
  \/ \E v \in SeqsUpTo(MaxLen) : FromVec(v)
  \/ \E m \in 0..MaxSet : SetMaxSims(m)
  \/ \E g \in Preds : OneCall(g)
  \/ OneTrial
  \/ OneReturn
  \/ \E k \in SampleSizes, g \in Preds : SampleCall(k, g)
  \/ SampleTrial
  \/ SampleReturn

Spec == Init /\ [][Next]_vars

(* ------------------------------ claims -------------------------------- *)

\* The call made last was given arguments the specification calls valid.
ValidCall ==
  /\ Len(items) > 0
  /\ \/ op = "one"
     \/ op = "sample" /\ 0 < sample_size /\ sample_size <= Len(items)

Running == {"one", "sample"}

\* C1: for a non-empty bag and a positive max_sims, one(p) returns the
\* number of trials in which p held divided by the bag's max_sims: the
\* returned quotient equals picks_in_favor / max_sims as an exact ratio.
C1_OneReturnsCounterOverMaxSims ==
  (pc = "returned" /\ op = "one" /\ Len(items) > 0 /\ n > 0 /\ max_sims = n)
    => Num(result) * max_sims = picks_in_favor * Den(result)

\* C2: every estimation call that returns, made with valid arguments on a
\* non-empty bag with a positive max_sims, returns a value in [0, 1].
C2_ResultInUnitInterval ==
  (pc = "returned" /\ ValidCall /\ n > 0)
    => 0 <= Num(result) /\ Num(result) <= Den(result)

\* C3: for a non-empty bag and a positive max_sims,
\* sample(len(items), always-true) returns exactly 1.0.
C3_FullSampleAlwaysTrueIsOne ==
  (pc = "returned" /\ op = "sample" /\ Len(items) > 0 /\ n > 0
     /\ sample_size = Len(items) /\ f = "always")
    => Num(result) = Den(result)

\* C4: in every trial of sample(k, p) with 0 < k <= len(items) the closure
\* gets exactly k items from k pairwise distinct positions of items, and
\* every trial draws from the full population: the clone sampled from is
\* the whole of items and every position can be drawn in the next trial.
C4_TrialDrawsDistinctPositions ==
  (op = "sample" /\ 0 < sample_size /\ sample_size <= Len(items)) =>
    /\ (i > 0 /\ pc \in {"sample", "returned"}) =>
         /\ Len(drawn) = sample_size
         /\ \A a \in 1..Len(drawn) : drawn[a] \in 1..Len(items)
         /\ \A a \in 1..Len(drawn), b \in 1..Len(drawn) :
              a # b => drawn[a] # drawn[b]
    /\ pc = "sample" =>
         /\ items_clone = items
         /\ \A j \in 1..Len(items) :
              \E r \in SampleIter(Len(items_clone), sample_size) :
                IsOk(r) /\ \E a \in 1..Len(Val(r)) : Val(r)[a] = j

\* C4 witness: a second or later trial of sample(2, p) on a three-item bag
\* handed over the third and the second item (the third took a slot).
C4_Witness ==
  /\ pc = "sample" /\ i >= 2
  /\ Len(items) = 3 /\ sample_size = 2 /\ drawn = <<3, 2>>

\* C5 as stated: on a non-empty bag (with the positive max_sims the
\* specification requires of every estimation call) sample(k, p) returns no
\* estimate whenever k = 0 or k > len(items).
C5_InvalidSampleSizeNeverReturns ==
  (op = "sample" /\ Len(items) > 0 /\ n > 0
     /\ (sample_size = 0 \/ sample_size > Len(items)))
    => pc # "returned"

\* C5 amended: on a non-empty bag with max_sims > 0, sample(k, p) with
\* k > len(items) panics in its first trial and returns no estimate;
\* sample(k, p) with k <= len(items), k = 0 included, never panics.
C5_OversizedSamplePanics ==
  (op = "sample" /\ Len(items) > 0) =>
    /\ (sample_size > Len(items) /\ n > 0) =>
         /\ pc # "returned" /\ i = 0 /\ result = NoResult
         /\ pc = "sample" =>
              \A r \in SampleIter(Len(items_clone), sample_size) : ~IsOk(r)
    /\ sample_size <= Len(items) => pc # "panicked"

\* C5 witness: sample(len(items) + 1, p) on a non-empty bag has panicked.
C5_Witness ==
  /\ pc = "panicked" /\ op = "sample"
  /\ Len(items) > 0 /\ sample_size = Len(items) + 1

\* C6 as stated: no estimation call on a bag with zero items (made with a
\* positive max_sims) returns an estimate.
C6_EmptyBagNeverReturns ==
  (status = "constructed" /\ Len(items) = 0 /\ op # "none" /\ n > 0)
    => pc # "returned"

\* C6 amended: on a bag with zero items and max_sims > 0, one(p) and
\* sample(k, p) with k > 0 panic in their first trial and return no
\* estimate, while sample(0, p) never panics; from_vec of an empty vector
\* and from_range(min, max) with max <= min build exactly such bags.
C6_EmptyBagPanicsUnlessSampleZero ==
  /\ (status = "constructed" /\ Len(items) = 0) =>
       /\ (n > 0 /\ (op = "one" \/ (op = "sample" /\ sample_size > 0))) =>
            /\ pc # "returned" /\ i = 0 /\ result = NoResult
            /\ pc = "one" => ~IsOk(GenRange(0, Len(items)))
            /\ pc = "sample" =>
                 \A r \in SampleIter(Len(items_clone), sample_size) : ~IsOk(r)
       /\ (op = "sample" /\ sample_size = 0) => pc # "panicked"
  /\ (status = "constructed" /\ CtorKind(ctor) = "vec") =>
       (Len(items) = 0 <=> CtorVec(ctor) = <<>>)
  /\ (status = "constructed" /\ CtorKind(ctor) = "range") =>
       (Len(items) = 0 <=> CtorMax(ctor) <= CtorMin(ctor))

\* C6 witness: one(p) on the empty bag of from_range(min, max), max <= min,
\* has panicked.
C6_Witness ==
  /\ pc = "panicked" /\ op = "one"
  /\ CtorKind(ctor) = "range" /\ CtorMax(ctor) <= CtorMin(ctor) /\ Len(items) = 0

\* C7: after set_max_sims(m) the bag's max_sims is m, whatever it was; after
\* several set_max_sims calls it is the argument of the last one.
C7_BudgetIsLastSet ==
  lastSet # NoSet => max_sims = lastSet

\* C7 witness: a bag constructed with the default budget was set to another
\* value after an estimation call.
C7_Witness ==
  /\ env = Unset /\ pc = "returned"
  /\ lastSet = 1 /\ max_sims = 1 /\ n = MaxSet

\* A text that is a decimal numeral, with an optional leading "+".
Numeral(s) ==
  LET d == IF s # <<>> /\ Head(s) = "+" THEN Tail(s) ELSE s
  IN  d

IsNumeral(s) ==
  /\ Numeral(s) # <<>>
  /\ \A j \in 1..Len(Numeral(s)) : Numeral(s)[j] \in Digits

RECURSIVE Pow10(_)
Pow10(e) == IF e = 0 THEN 1 ELSE 10 * Pow10(e - 1)

RECURSIVE WeightedSum(_, _)
\* Digits d[j..Len(d)] weighted by their decimal place.
WeightedSum(d, j) ==
  IF j > Len(d) THEN 0
  ELSE DigitVal(d[j]) * Pow10(Len(d) - j) + WeightedSum(d, j + 1)

NumeralValue(s) == WeightedSum(Numeral(s), 1)

\* C8 as stated: with no override a new bag has max_sims = MAX_SIMS; with an
\* override that is a positive integer, that integer; with any other
\* override construction fails.  Hence a constructed bag has max_sims > 0.
C8_OverrideMustBePositive ==
  LET positive == EnvKind(env) = "text" /\ IsNumeral(EnvText(env)) /\ NumeralValue(EnvText(env)) > 0
  IN  /\ (status = "constructed" /\ lastSet = NoSet) =>
           /\ max_sims > 0
           /\ env = Unset => max_sims = MAX_SIMS
           /\ positive => max_sims = NumeralValue(EnvText(env))
      /\ status = "failed" => (EnvKind(env) = "text" /\ ~positive)
      /\ (status # "none" /\ EnvKind(env) = "text" /\ ~positive) => status = "failed"

\* C8 amended: both constructors read the override at construction.  With
\* no override, or one that is not valid Unicode, max_sims is MAX_SIMS; with
\* an override that is a decimal numeral (a leading "+" allowed), zero
\* included, max_sims is its value; with any other text construction
\* panics and there is no bag.  A constructed bag has max_sims >= 0, and
\* max_sims = 0 when the override is "0".
C8_OverrideParsedAsU32 ==
  /\ status # "none" =>
       IF EnvKind(env) # "text"
       THEN status = "constructed" /\ (lastSet = NoSet => max_sims = MAX_SIMS)
       ELSE IF IsNumeral(EnvText(env))
       THEN status = "constructed"
            /\ (lastSet = NoSet => max_sims = NumeralValue(EnvText(env)))
       ELSE status = "failed"
  /\ status = "constructed" => max_sims >= 0

\* C8 witness: from_vec under the override "0" built a bag with max_sims = 0.
C8_Witness ==
  /\ status = "constructed" /\ CtorKind(ctor) = "vec" /\ lastSet = NoSet
  /\ env = Text(<<"0">>) /\ max_sims = 0

\* The budget a call finds: the argument of the latest set_max_sims, else
\* the value the constructor stored.
BudgetAtCall ==
  IF lastSet # NoSet THEN lastSet
  ELSE IF EnvKind(env) = "text" THEN NumeralValue(EnvText(env)) ELSE MAX_SIMS

\* C9: a call of one or sample with valid arguments runs exactly max_sims
\* trials, max_sims being the bag's value when the call was made (the latest
\* set_max_sims argument, else the constructor's value), and then returns a
\* result: while it runs it has done at most that many trials and can take a
\* further step, it never panics, and it has returned only after exactly
\* that many.  A set_max_sims after the return leaves the result and the
\* number of trials done as they were.
C9_ExactlyMaxSimsTrials ==
  /\ [](ValidCall =>
          /\ pc \in Running =>
               /\ n = max_sims /\ n = BudgetAtCall
               /\ i <= n
               /\ ENABLED (OneTrial \/ OneReturn \/ SampleTrial \/ SampleReturn)
          /\ pc # "panicked"
          /\ pc = "returned" => (i = n /\ result # NoResult))
  /\ [][(pc = "returned" /\ pc' = "returned")
          => (result' = result /\ i' = i /\ n' = n)]_vars

\* C9 witness: a call that ran its budget of trials has returned and the
\* budget was changed afterwards.
C9_Witness ==
  /\ pc = "returned" /\ ValidCall
  /\ i = n /\ n = MaxSet /\ max_sims = 1

\* What the constructor call recorded in ctor was to store.
ExpectedItems(c) ==
  IF CtorKind(c) = "vec" THEN CtorVec(c)
  ELSE [j \in 1..(IF CtorMax(c) > CtorMin(c) THEN CtorMax(c) - CtorMin(c) ELSE 0) |-> CtorMin(c) + j - 1]

\* C10: after construction items stays what the constructor stored (the
\* vector verbatim, or the integers of [min, max) ascending) through every
\* one, sample and set_max_sims, and no step of one or sample changes
\* max_sims.
C10_ItemsNeverChange ==
  /\ [](status = "constructed" => items = ExpectedItems(ctor))
  /\ [][(pc \in Running \/ pc' \in Running)
          => (max_sims' = max_sims /\ items' = items)]_vars

\* C10 witness: a bag built by from_range has been sampled and had its
\* budget set.
C10_Witness ==
  /\ pc = "returned" /\ op = "sample" /\ i > 0
  /\ CtorKind(ctor) = "range" /\ Len(items) = 2 /\ lastSet # NoSet

==========================================================================
